---- MODULE Spec2Model ----
(***************************************************************************)
(* A model of the event registration lists (game quit / game closing), of  *)
(* the signature matcher and of the Dear ImGui platform implementation     *)
(* (imgui_impl_blam) of Chimera.                                           *)
(***************************************************************************)
EXTENDS Integers, Sequences, FiniteSets, TLC

(***************************************************************************)
(* Bounds of the model.                                                    *)
(***************************************************************************)
\* Number of distinct callback function pointers.
NumFuncs == 3
\* Priorities are 0..MaxPriority; a lower value is called earlier.
MaxPriority == 1
\* At most this many registrations exist at a time, over all categories.
MaxRegistered == 3
\* Signature patterns have 1..MaxPatternLen elements, regions 0..MaxRegionLen
\* bytes, and bytes are 0..MaxByte.
MaxPatternLen == 2
MaxRegionLen == 4
MaxByte == 1
\* At most MaxWinCalls calls of SetWindowLongPtr and MaxHookWrites calls of
\* write_function_override are followed.
MaxWinCalls == 5
MaxHookWrites == 3
\* io.KeysDown is modelled with KeysDownSize entries (indices 0..KeysDownSize-1)
\* and key messages carry a wParam of 0..MaxWParam or one around the largest
\* ImWchar16.
KeysDownSize == 1
MaxWParam == 1
\* A widget event queue starts with at most MaxQueued slots in use, and the
\* buffered key buffer has NumBufferedKeys entries.
MaxQueued == 3
NumBufferedKeys == 2

Functions == 1..NumFuncs
EventPriority == 0..MaxPriority
\* One registration list (and one hook) per event category.
Categories == {"game_quit", "game_closing"}

VARIABLES
    events,      \* events[c]: the vector game_quit_events / game_closing_events
    enabled,     \* enabled[c]: the static bool of enable_game_*_hook
    hookWrites,  \* hookWrites[c]: how many times write_jmp_call ran for c
    calls,       \* the functions the last hook invocation called, in call order
    order,       \* history: order[c] lists the registered functions by their latest add
    lastOp       \* history: the operation performed last

evVars == <<events, enabled, hookWrites, calls, order, lastOp>>

VARIABLES
    sigPattern,  \* the signature: a sequence of bytes and wildcards
    sigRegion,   \* the bytes of the region [base, base + size)
    sigBeyond,   \* the byte a read outside the region would return
    sigResult,   \* what find reported
    sigReads,    \* the offsets (from base) find read
    sigPc        \* "ready" before find, "done" after

sigVars == <<sigPattern, sigRegion, sigBeyond, sigResult, sigReads, sigPc>>

VARIABLES
    lpfnOldWndProc,    \* the anonymous-namespace WNDPROC of imgui_impl_blam
    wndProc,           \* the window's GWLP_WNDPROC
    swlCalls,          \* the SetWindowLongPtr calls made: new value and success
    cursorHookWrites,  \* how many times write_function_override ran
    backendPlatformName, \* io.BackendPlatformName
    initResult,        \* what the last ImGui_ImplBlam_Init returned ("none" before)
    blamLast           \* history: the platform operation performed last

blamVars == <<lpfnOldWndProc, wndProc, swlCalls, cursorHookWrites,
              backendPlatformName, initResult, blamLast>>

VARIABLES
    topWidget,       \* whether top_widget_instance[0] is not nullptr
    KeysDown,        \* io.KeysDown
    keysOob,         \* whether an element outside io.KeysDown was written
    inputCharacter,  \* the character last given to io.AddInputCharacterUTF16 (0: none)
    wndMessage,      \* history: the message ImGui_ImplBlam_WndProc last received
    forwarded,       \* history: the CallWindowProc calls of that invocation
    wndResult        \* history: what that invocation returned

wndVars == <<topWidget, KeysDown, keysOob, inputCharacter, wndMessage,
             forwarded, wndResult>>

VARIABLES
    queues,              \* WidgetEventGlobals::queues
    wheel,               \* enumerated_devices.direct_mouse_state.wheel
    buffered_keys,       \* InputGlobals::buffered_keys
    WantCaptureMouse,    \* io.WantCaptureMouse
    WantCaptureKeyboard, \* io.WantCaptureKeyboard
    MouseDrawCursor,     \* io.MouseDrawCursor
    hideWidgetCursor,    \* imgui_impl_blam_hide_widget_cursor
    capBefore,           \* history: the input state CaptureInput was entered with
    capPc                \* "ready" before ImGui_ImplBlam_CaptureInput, "done" after

capVars == <<queues, wheel, buffered_keys, WantCaptureMouse,
             WantCaptureKeyboard, MouseDrawCursor, hideWidgetCursor,
             capBefore, capPc>>

VARIABLES
    context_initialized,    \* the flags of chimera_imgui.cpp
    platform_initialized,
    renderer_initialized,
    device_objects_created,
    d3d9_reset_events,      \* the callbacks registered for the D3D9 reset event
    d3d9_end_scene_events,  \* the callbacks registered for the end-scene event
    updateHookWrites,       \* how many times the update-widgets hook was written
    dx9InitResult,          \* what the last ImGui_ImplDX9_Init returned
    dx9CreateResult,        \* what the last ImGui_ImplDX9_CreateDeviceObjects returned
    endSceneSeen,           \* history: an end-scene event has been received
    imLast                  \* history: the callback run last and what it did

imVars == <<context_initialized, platform_initialized, renderer_initialized,
            device_objects_created, d3d9_reset_events, d3d9_end_scene_events,
            updateHookWrites, dx9InitResult, dx9CreateResult, endSceneSeen,
            imLast>>

VARIABLES
    cmpArgs,     \* the operands of the comparison helpers, with their types
    cmpResult,   \* what cmp_less and cmp_less_equal returned
    asgDest,     \* the destination type of frame_interface<Integral>::assign
    asgValue,    \* the lua_Integer read from the stack
    asgResult,   \* whether assign raised the error, and the value of dest
    cmpPc        \* the calls made: "compare", "assign"

cmpVars == <<cmpArgs, cmpResult, asgDest, asgValue, asgResult, cmpPc>>

VARIABLES
    font_override,   \* the settings: enabled, hud_text_enabled
    fontsDir,        \* the "fonts" path: whether a directory, and its entries
    fontIndex,       \* the entry the directory iteration is at
    fontsLoaded,     \* the entries AddFontResourceEx loaded
    dialogs,         \* the message boxes shown
    textSteps,       \* the initialization steps executed, in order
    textPc           \* where setup_text_hook is

textVars == <<font_override, fontsDir, fontIndex, fontsLoaded, dialogs,
              textSteps, textPc>>

\* What an operation of the event lists, the matcher or the platform
\* implementation leaves alone.
otherVars == <<wndVars, capVars, imVars, cmpVars, textVars>>

vars == <<evVars, sigVars, blamVars, otherVars>>

\* lastOp.function, lastOp.priority: the arguments of an add.
\* lastOp.present: whether the function was registered when the operation began.
NoOp == [op |-> "none", cat |-> "none", function |-> 0, priority |-> 0,
         present |-> FALSE]
Op(o, c, f, p, b) ==
    [op |-> o, cat |-> c, function |-> f, priority |-> p, present |-> b]

(***************************************************************************)
(* Helpers on the std::vector<Event<EventFunction>>.                       *)
(***************************************************************************)
\* Event<EventFunction> { function, priority }
Event(f, p) == [function |-> f, priority |-> p]

\* std::find_if(cbegin, cend, is_event_function): the first index whose function
\* is f, or Len(list) + 1 (cend) when there is none.
find_if(list, f) ==
    IF \E i \in 1..Len(list) : list[i].function = f
    THEN CHOOSE i \in 1..Len(list) :
            /\ list[i].function = f
            /\ \A j \in 1..(i - 1) : list[j].function # f
    ELSE Len(list) + 1

\* std::vector::erase(it): the element at index i is dropped, the tail moves up.
erase(list, i) ==
    [j \in 1..(Len(list) - 1) |-> IF j < i THEN list[j] ELSE list[j + 1]]

\* Variant: the new element is put at the front.
emplace_front(list, e) == <<e>> \o list

\* std::vector::emplace_back
emplace_back(list, e) == Append(list, e)

\* Variant: erase(it, cend) drops the found element and all that follow it.
erase_from(list, f) ==
    LET it == find_if(list, f)
    IN  IF it # Len(list) + 1 THEN SubSeq(list, 1, it - 1) ELSE list

\* The list after remove_game_quit_event(f) / remove_game_closing_event(f).
remove_event(list, f) ==
    LET it == find_if(list, f)
    IN  IF it # Len(list) + 1 THEN erase(list, it) ELSE list

\* Insertion before the first element of a higher priority value.
RECURSIVE insert_sorted(_, _)
insert_sorted(list, e) ==
    IF list = <<>> THEN <<e>>
    ELSE IF Head(list).priority > e.priority THEN <<e>> \o list
    ELSE <<Head(list)>> \o insert_sorted(Tail(list), e)

\* Variant: add without the leading remove.
add_event_no_remove(list, f, p) == emplace_back(list, Event(f, p))

\* Variant: add returns early when the function is registered.
add_event_keep_existing(list, f, p) ==
    IF find_if(list, f) # Len(list) + 1 THEN list
    ELSE emplace_back(list, Event(f, p))

\* Variant: add inserts at the priority-ordered position.
add_event_sorted(list, f, p) == insert_sorted(remove_event(list, f), Event(f, p))

\* The list after add_game_quit_event(f, p) / add_game_closing_event(f, p).
add_event(list, f, p) == emplace_back(remove_event(list, f), Event(f, p))

\* Variant: the hook is written without testing the static flag.
enable_hook_always(c) ==
    /\ enabled' = [enabled EXCEPT ![c] = TRUE]
    /\ hookWrites' = [hookWrites EXCEPT ![c] = @ + 1]

\* enable_game_quit_hook / enable_game_closing_hook: write_jmp_call runs only
\* while the static flag is still false.
enable_hook(c) ==
    /\ enabled' = [enabled EXCEPT ![c] = TRUE]
    /\ hookWrites' = [hookWrites EXCEPT ![c] = IF enabled[c] THEN @ ELSE @ + 1]

\* call_in_order(events): the functions of one priority, in list order, then
\* those of the next priority.
RECURSIVE call_from_priority(_, _)
call_from_priority(list, p) ==
    IF p > MaxPriority THEN <<>>
    ELSE LET same == SelectSeq(list, LAMBDA e : e.priority = p)
         IN  [i \in 1..Len(same) |-> same[i].function]
                \o call_from_priority(list, p + 1)

call_in_order(list) == call_from_priority(list, 0)

(***************************************************************************)
(* Operations on the event lists.                                          *)
(***************************************************************************)
\* is_event_function holds of some element of the category's list.
Registered(c, f) == \E i \in 1..Len(events[c]) : events[c][i].function = f
TotalRegistered == Len(events["game_quit"]) + Len(events["game_closing"])

\* add: remove the function if it exists, enable the hook if not enabled,
\* append the registration.
AddEventCall(c, f, p) ==
    /\ Registered(c, f) \/ TotalRegistered < MaxRegistered
    /\ events' = [events EXCEPT ![c] = add_event(@, f, p)]
    /\ enable_hook(c)
    /\ order' = [order EXCEPT ![c] = Append(SelectSeq(@, LAMBDA g : g # f), f)]
    /\ calls' = <<>>
    /\ lastOp' = Op("add", c, f, p, Registered(c, f))

AddEvent(c, f, p) ==
    /\ AddEventCall(c, f, p)
    /\ UNCHANGED <<sigVars, blamVars, otherVars>>

\* remove: erase the registration of the function if there is one.
RemoveEventCall(c, f) ==
    /\ events' = [events EXCEPT ![c] = remove_event(@, f)]
    /\ order' = [order EXCEPT ![c] = SelectSeq(@, LAMBDA g : g # f)]
    /\ calls' = <<>>
    /\ lastOp' = Op("remove", c, 0, 0, Registered(c, f))
    /\ UNCHANGED <<enabled, hookWrites>>

RemoveEvent(c, f) ==
    /\ RemoveEventCall(c, f)
    /\ UNCHANGED <<sigVars, blamVars, otherVars>>

\* The hooked code runs the lambda on_game_quit / on_game_closing: one
\* synchronous call of call_in_order, which returns when every callback has.
OnEvent(c) ==
    /\ enabled[c]
    /\ calls' = call_in_order(events[c])
    /\ lastOp' = Op("dispatch", c, 0, 0, FALSE)
    /\ UNCHANGED <<events, enabled, hookWrites, order, sigVars, blamVars,
                   otherVars>>

add_game_quit_event(f, p) == AddEvent("game_quit", f, p)
remove_game_quit_event(f) == RemoveEvent("game_quit", f)
on_game_quit == OnEvent("game_quit")
add_game_closing_event(f, p) == AddEvent("game_closing", f, p)
remove_game_closing_event(f) == RemoveEvent("game_closing", f)
on_game_closing == OnEvent("game_closing")

EventsInit ==
    /\ events = [c \in Categories |-> <<>>]
    /\ enabled = [c \in Categories |-> FALSE]
    /\ hookWrites = [c \in Categories |-> 0]
    /\ calls = <<>>
    /\ order = [c \in Categories |-> <<>>]
    /\ lastOp = NoOp

EventsNext ==
    \/ \E f \in Functions, p \in EventPriority : add_game_quit_event(f, p)
    \/ \E f \in Functions : remove_game_quit_event(f)
    \/ on_game_quit
    \/ \E f \in Functions, p \in EventPriority : add_game_closing_event(f, p)
    \/ \E f \in Functions : remove_game_closing_event(f)
    \/ on_game_closing


(***************************************************************************)
(* The signature matcher: find(P, R).                                      *)
(***************************************************************************)
WILDCARD == -1
Byte == 0..MaxByte
SeqsUpTo(S, lo, hi) == UNION {[1..n -> S] : n \in lo..hi}

\* The pattern and the region of the worked example.
ExamplePattern == <<85, WILDCARD, 139, 236>>
ExampleRegion == <<144, 85, 16, 139, 236, 144>>

\* Variant: every element is compared as a literal.
never_wildcard(e) == FALSE

\* A pattern element is a literal byte or a wildcard.
is_wildcard(e) == e = WILDCARD

\* The byte at offset o from base.
ReadByte(R, o) == IF o \in 0..(Len(R) - 1) THEN R[o + 1] ELSE sigBeyond

\* Compare the pattern elements k.. with the memory at offset o, skipping
\* wildcard positions: whether all of them match, and the offsets read.
RECURSIVE compare(_, _, _, _)
compare(P, R, o, k) ==
    IF k > Len(P) THEN [match |-> TRUE, reads |-> {}]
    ELSE IF is_wildcard(P[k]) THEN compare(P, R, o, k + 1)
    ELSE IF ReadByte(R, o + k - 1) = P[k]
         THEN LET rest == compare(P, R, o, k + 1)
              IN  [match |-> rest.match, reads |-> rest.reads \cup {o + k - 1}]
         ELSE [match |-> FALSE, reads |-> {o + k - 1}]

\* Variant: every offset of the region is a candidate.
last_candidate_in_region(P, R) == Len(R) - 1

\* The candidate start offsets are 0..last_candidate: the window stays inside
\* the region.
last_candidate(P, R) == Len(R) - Len(P)

\* The sliding-window scan from candidate offset o on: the offsets that match,
\* in ascending order, and the offsets read.
RECURSIVE scan(_, _, _)
scan(P, R, o) ==
    IF o > last_candidate(P, R) THEN [matches |-> <<>>, reads |-> {}]
    ELSE LET here == compare(P, R, o, 1)
             rest == scan(P, R, o + 1)
         IN  [matches |-> (IF here.match THEN <<o>> ELSE <<>>) \o rest.matches,
              reads |-> here.reads \cup rest.reads]

\* Variant: the first match is returned without looking for a second.
report_first(matches) ==
    IF Len(matches) = 0 THEN [status |-> "not_found", offset |-> -1]
    ELSE [status |-> "found", offset |-> matches[1]]

\* The result: the unique offset, not-found, or ambiguous.
report(matches) ==
    IF Len(matches) = 0 THEN [status |-> "not_found", offset |-> -1]
    ELSE IF Len(matches) = 1 THEN [status |-> "found", offset |-> matches[1]]
    ELSE [status |-> "ambiguous", offset |-> -1]

find ==
    /\ sigPc = "ready"
    /\ LET s == scan(sigPattern, sigRegion, 0)
       IN  /\ sigResult' = report(s.matches)
           /\ sigReads' = s.reads
    /\ sigPc' = "done"
    /\ UNCHANGED <<sigPattern, sigRegion, sigBeyond, evVars, blamVars,
                   otherVars>>

NoResult == [status |-> "none", offset |-> -1]

\* No search is under way.
SigIdle ==
    /\ sigPattern = ExamplePattern
    /\ sigRegion = ExampleRegion
    /\ sigBeyond = 0
    /\ sigResult = NoResult
    /\ sigReads = {}
    /\ sigPc = "ready"

\* A search is about to start: any non-empty pattern, any region.
SigInit ==
    /\ \/ /\ sigPattern \in SeqsUpTo(Byte \cup {WILDCARD}, 1, MaxPatternLen)
          /\ sigRegion \in SeqsUpTo(Byte, 0, MaxRegionLen)
       \/ /\ sigPattern = ExamplePattern
          /\ sigRegion = ExampleRegion
    /\ sigBeyond \in Byte
    /\ sigResult = NoResult
    /\ sigReads = {}
    /\ sigPc = "ready"

SigNext == find

(***************************************************************************)
(* The platform implementation: ImGui_ImplBlam_Init / _Shutdown.           *)
(***************************************************************************)
NULL == "NULL"
\* The window procedure of the game and the subclassing one.
HaloWndProc == "HaloWndProc"
ImGui_ImplBlam_WndProc == "ImGui_ImplBlam_WndProc"

\* SetWindowLongPtr(hWnd, GWLP_WNDPROC, newLong): on success the window gets
\* newLong and the previous value is returned; on failure the window is left
\* as it is, zero is returned and the last error is set.
SetWindowLongPtr(newLong, ok) ==
    /\ Len(swlCalls) < MaxWinCalls
    /\ swlCalls' = Append(swlCalls, [newLong |-> newLong, ok |-> ok])
    /\ wndProc' = IF ok THEN newLong ELSE wndProc

SetWindowLongPtrResult(ok) == IF ok THEN wndProc ELSE NULL

\* write_function_override(widget_draw_cursor_sig, ...), then the backend name.
InstallCursorHook ==
    /\ cursorHookWrites < MaxHookWrites
    /\ cursorHookWrites' = cursorHookWrites + 1
    /\ backendPlatformName' = "imgui_impl_blam"

\* The body of ImGui_ImplBlam_Init, as a caller runs it.
ImGui_ImplBlam_Init_call ==
    /\ blamLast' = "init"
    /\ \/ /\ lpfnOldWndProc = NULL
          /\ \E ok \in BOOLEAN :
                /\ SetWindowLongPtr(ImGui_ImplBlam_WndProc, ok)
                /\ IF ok
                   THEN /\ lpfnOldWndProc' = SetWindowLongPtrResult(ok)
                        /\ InstallCursorHook
                        /\ initResult' = "true"
                   ELSE /\ lpfnOldWndProc' = NULL
                        /\ initResult' = "false"
                        /\ UNCHANGED <<cursorHookWrites, backendPlatformName>>
       \/ /\ lpfnOldWndProc # NULL
          /\ InstallCursorHook
          /\ initResult' = "true"
          /\ UNCHANGED <<lpfnOldWndProc, wndProc, swlCalls>>

ImGui_ImplBlam_Init ==
    /\ ImGui_ImplBlam_Init_call
    /\ UNCHANGED <<evVars, sigVars, otherVars>>

\* Variant: the saved pointer is not cleared.
ImGui_ImplBlam_Shutdown_keeps_pointer ==
    /\ blamLast' = "shutdown"
    /\ IF lpfnOldWndProc # NULL
       THEN /\ \E ok \in BOOLEAN : SetWindowLongPtr(lpfnOldWndProc, ok)
            /\ UNCHANGED lpfnOldWndProc
       ELSE UNCHANGED <<lpfnOldWndProc, wndProc, swlCalls>>
    /\ UNCHANGED <<cursorHookWrites, backendPlatformName, initResult>>
    /\ UNCHANGED <<evVars, sigVars, otherVars>>

\* The body of ImGui_ImplBlam_Shutdown, as a caller runs it.
ImGui_ImplBlam_Shutdown_call ==
    /\ blamLast' = "shutdown"
    /\ IF lpfnOldWndProc # NULL
       THEN /\ \E ok \in BOOLEAN : SetWindowLongPtr(lpfnOldWndProc, ok)
            /\ lpfnOldWndProc' = NULL
       ELSE UNCHANGED <<lpfnOldWndProc, wndProc, swlCalls>>
    /\ UNCHANGED <<cursorHookWrites, backendPlatformName, initResult>>

ImGui_ImplBlam_Shutdown ==
    /\ ImGui_ImplBlam_Shutdown_call
    /\ UNCHANGED <<evVars, sigVars, otherVars>>

(***************************************************************************)
(* The platform implementation: the subclassing window procedure.          *)
(***************************************************************************)
\* top_widget_instance[0] != nullptr
is_imgui_active == topWidget

\* std::numeric_limits<ImWchar16>::max()
ImWchar16Max == 65535

Messages == {"WM_CHAR", "WM_KEYDOWN", "WM_SYSKEYDOWN", "WM_KEYUP",
             "WM_SYSKEYUP", "WM_PAINT"}
WParams == (0..MaxWParam) \cup {ImWchar16Max, ImWchar16Max + 1}
LParams == {0, 1}
\* What the game's window procedure may return.
LResults == {"0", "1"}

NoMessage == [uMsg |-> "none", wParam |-> 0, lParam |-> 0]

\* CallWindowProc(proc, hWnd, uMsg, wParam, lParam): the game's procedure
\* returns a result; a null procedure handles nothing; the subclassing
\* procedure calling itself does not return.
CallWindowProcResults(proc) ==
    IF proc = HaloWndProc THEN LResults
    ELSE IF proc = NULL THEN {"0", "fault"}
    ELSE {"no return"}

\* Variant: a key or character message ImGui has processed is not passed on.
CallWindowProc_unless_processed(uMsg, wParam, lParam) ==
    IF is_imgui_active /\ uMsg # "WM_PAINT"
    THEN /\ forwarded' = <<>>
         /\ wndResult' = "0"
    ELSE \E r \in CallWindowProcResults(lpfnOldWndProc) :
            /\ forwarded' = << [proc |-> lpfnOldWndProc, uMsg |-> uMsg,
                                wParam |-> wParam, lParam |-> lParam,
                                result |-> r] >>
            /\ wndResult' = r

\* return CallWindowProc(lpfnOldWndProc, hWnd, uMsg, wParam, lParam);
CallWindowProc(uMsg, wParam, lParam) ==
    \E r \in CallWindowProcResults(lpfnOldWndProc) :
        /\ forwarded' = << [proc |-> lpfnOldWndProc, uMsg |-> uMsg,
                            wParam |-> wParam, lParam |-> lParam,
                            result |-> r] >>
        /\ wndResult' = r

\* if (wParam < std::size(io.KeysDown)) io.KeysDown[wParam] = v;
SetKeyDown(wParam, v) ==
    /\ KeysDown' = IF wParam < KeysDownSize
                   THEN [KeysDown EXCEPT ![wParam] = v]
                   ELSE KeysDown
    /\ UNCHANGED keysOob

\* The window calls the subclassing procedure with a message.
WndProc(uMsg, wParam, lParam) ==
    /\ wndProc = ImGui_ImplBlam_WndProc
    /\ wndMessage' = [uMsg |-> uMsg, wParam |-> wParam, lParam |-> lParam]
    /\ IF is_imgui_active
       THEN CASE uMsg = "WM_CHAR" ->
                  /\ inputCharacter' =
                        IF wParam # 0 /\ wParam <= ImWchar16Max
                        THEN wParam ELSE inputCharacter
                  /\ UNCHANGED <<KeysDown, keysOob>>
              [] uMsg \in {"WM_KEYDOWN", "WM_SYSKEYDOWN"} ->
                  /\ SetKeyDown(wParam, TRUE)
                  /\ UNCHANGED inputCharacter
              [] uMsg \in {"WM_KEYUP", "WM_SYSKEYUP"} ->
                  /\ SetKeyDown(wParam, FALSE)
                  /\ UNCHANGED inputCharacter
              [] OTHER -> UNCHANGED <<KeysDown, keysOob, inputCharacter>>
       ELSE UNCHANGED <<KeysDown, keysOob, inputCharacter>>
    /\ CallWindowProc(uMsg, wParam, lParam)
    /\ blamLast' = "wndproc"
    /\ UNCHANGED <<lpfnOldWndProc, wndProc, swlCalls, cursorHookWrites,
                   backendPlatformName, initResult>>
    /\ UNCHANGED <<topWidget, evVars, sigVars, capVars, imVars, cmpVars,
                   textVars>>

ImGui_ImplBlam_WndProc_call ==
    \E uMsg \in Messages, wParam \in WParams, lParam \in LParams :
        WndProc(uMsg, wParam, lParam)

\* The game opens or closes the top widget.
SetTopWidget ==
    /\ topWidget' = ~topWidget
    /\ blamLast' = "widget"
    /\ UNCHANGED <<KeysDown, keysOob, inputCharacter, wndMessage, forwarded,
                   wndResult>>
    /\ UNCHANGED <<lpfnOldWndProc, wndProc, swlCalls, cursorHookWrites,
                   backendPlatformName, initResult>>
    /\ UNCHANGED <<evVars, sigVars, capVars, imVars, cmpVars, textVars>>

WndInit ==
    /\ topWidget = FALSE
    /\ KeysDown = [k \in 0..(KeysDownSize - 1) |-> FALSE]
    /\ keysOob = FALSE
    /\ inputCharacter = 0
    /\ wndMessage = NoMessage
    /\ forwarded = <<>>
    /\ wndResult = "none"

(***************************************************************************)
(* The platform implementation: ImGui_ImplBlam_NewFrame / _CaptureInput.   *)
(***************************************************************************)
\* WidgetEvent::EventType
type_none == 0
type_left_analog_stick == 1
type_right_analog_stick == 2
type_gamepad_button == 3
type_mouse_button == 4
type_custom_activation == 5
EventTypes == {type_none, type_left_analog_stick, type_right_analog_stick,
               type_gamepad_button, type_mouse_button, type_custom_activation}

\* using EventQueue = WidgetEvent[8]; EventQueue queues[4];
QueueSize == 8
NumQueues == 4

WidgetEvent(t, player, lparam) ==
    [event_type |-> t, local_player_index |-> player, lparam |-> lparam]
\* WidgetEvent{}
ZeroEvent == WidgetEvent(type_none, 0, 0)

\* std::remove_if(begin, end, pred): the elements pred rejects, in order; the
\* slots behind them keep whatever they held.
remove_if(queue, type) == SelectSeq(queue, LAMBDA e : e.event_type # type)

\* Variant: the slots behind the kept elements are not overwritten.
remove_if_without_fill(queue, type) ==
    LET kept == remove_if(queue, type)
    IN  kept \o SubSeq(queue, Len(kept) + 1, Len(queue))

\* std::fill(std::remove_if(...), std::end(queue), WidgetEvent{})
remove_if_and_fill(queue, type) ==
    LET kept == remove_if(queue, type)
    IN  kept \o [i \in 1..(Len(queue) - Len(kept)) |-> ZeroEvent]

remove_widget_events_by_type(qs, type) ==
    [q \in DOMAIN qs |-> remove_if_and_fill(qs[q], type)]

\* BufferedKey{} is 0.
ZeroKeys == [i \in 1..NumBufferedKeys |-> 0]

\* Variant: the wheel value is left as it is.
capture_mouse_keeps_wheel(in) ==
    [in EXCEPT !.queues = remove_widget_events_by_type(@, type_mouse_button)]

\* if (io.WantCaptureMouse) { ... }
capture_mouse(in) ==
    [in EXCEPT !.queues = remove_widget_events_by_type(@, type_mouse_button),
               !.wheel = 0]

\* if (io.WantCaptureKeyboard) { ... }
capture_keyboard(in) ==
    [in EXCEPT !.queues = remove_widget_events_by_type(@, type_gamepad_button),
               !.buffered_keys = [read_index |-> 0, count |-> 0,
                                  keys |-> ZeroKeys]]

\* ImGui_ImplBlam_CaptureInput has not been entered.
NoCapture == <<>>

\* The input state ImGui_ImplBlam_CaptureInput works on.
InputState ==
    [queues |-> queues, wheel |-> wheel, buffered_keys |-> buffered_keys]

\* ImGui_ImplBlam_CaptureInput with the given io.WantCapture* flags: the
\* input state, io.MouseDrawCursor and imgui_impl_blam_hide_widget_cursor
\* it leaves.
CaptureInput(active, wantMouse, wantKeyboard) ==
    IF ~active
    THEN [in |-> InputState, MouseDrawCursor |-> MouseDrawCursor,
          hideWidgetCursor |-> hideWidgetCursor]
    ELSE LET s1 == IF wantMouse THEN capture_mouse(InputState)
                   ELSE InputState
             s2 == IF wantKeyboard THEN capture_keyboard(s1) ELSE s1
         IN  [in |-> s2, MouseDrawCursor |-> wantMouse,
              hideWidgetCursor |-> IF wantMouse THEN 1 ELSE 0]

ImGui_ImplBlam_CaptureInput_call(wantMouse, wantKeyboard) ==
    LET out == CaptureInput(is_imgui_active, wantMouse, wantKeyboard)
    IN  /\ capBefore' = InputState
        /\ queues' = out.in.queues
        /\ wheel' = out.in.wheel
        /\ buffered_keys' = out.in.buffered_keys
        /\ MouseDrawCursor' = out.MouseDrawCursor
        /\ hideWidgetCursor' = out.hideWidgetCursor

ImGui_ImplBlam_CaptureInput ==
    /\ capPc = "ready"
    /\ ImGui_ImplBlam_CaptureInput_call(WantCaptureMouse, WantCaptureKeyboard)
    /\ capPc' = "done"
    /\ UNCHANGED <<WantCaptureMouse, WantCaptureKeyboard>>
    /\ UNCHANGED <<evVars, sigVars, blamVars, wndVars, imVars, cmpVars,
                   textVars>>

\* The queue of player q - 1 filled from the given types, each queue starting
\* at another of them: either the first slots only, or (full) every slot, the
\* types repeating. Every event carries the number of its slot in lparam.
QueueOf(types, q, full) ==
    LET n == Len(types)
        typeAt(i) == types[((i + q - 2) % n) + 1]
        used == IF n = 0 THEN 0 ELSE IF full THEN QueueSize ELSE n
    IN  [i \in 1..QueueSize |->
            IF i <= used THEN WidgetEvent(typeAt(i), q - 1, i)
            ELSE ZeroEvent]

\* A buffered key buffer holding k keys.
BufferedKeys(k) ==
    [read_index |-> IF k = 0 THEN 0 ELSE k - 1, count |-> k,
     keys |-> [i \in 1..NumBufferedKeys |-> IF i <= k THEN i ELSE 0]]

\* No call of CaptureInput is under way: the queues of a menu in use.
CapIdle ==
    /\ queues = [q \in 1..NumQueues |->
                    QueueOf(<<type_mouse_button, type_custom_activation,
                              type_gamepad_button>>, q, FALSE)]
    /\ wheel = 1
    /\ buffered_keys = BufferedKeys(1)
    /\ WantCaptureMouse = FALSE
    /\ WantCaptureKeyboard = FALSE
    /\ MouseDrawCursor = FALSE
    /\ hideWidgetCursor = 0
    /\ capBefore = NoCapture
    /\ capPc = "ready"

\* CaptureInput is about to run: any queues, buffers and flags.
CapInit ==
    /\ \E types \in SeqsUpTo(EventTypes, 0, MaxQueued), full \in BOOLEAN :
          queues = [q \in 1..NumQueues |-> QueueOf(types, q, full)]
    /\ wheel \in {-1, 0, 1}
    /\ \E k \in 0..NumBufferedKeys : buffered_keys = BufferedKeys(k)
    /\ WantCaptureMouse \in BOOLEAN
    /\ WantCaptureKeyboard \in BOOLEAN
    /\ MouseDrawCursor = FALSE
    /\ hideWidgetCursor = 0
    /\ capBefore = NoCapture
    /\ capPc = "ready"

CapNext == ImGui_ImplBlam_CaptureInput

BlamInit ==
    /\ lpfnOldWndProc = NULL
    /\ wndProc = HaloWndProc
    /\ swlCalls = <<>>
    /\ cursorHookWrites = 0
    /\ backendPlatformName = NULL
    /\ initResult = "none"
    /\ blamLast = "none"

BlamNext ==
    \/ ImGui_ImplBlam_Init
    \/ ImGui_ImplBlam_Shutdown

\* The window is subclassed: after a successful Init; after a Shutdown whose
\* SetWindowLongPtr failed; and after an Init that followed such a Shutdown.
Subclassed ==
    LET sub(ok) == [newLong |-> ImGui_ImplBlam_WndProc, ok |-> ok]
        restore(ok) == [newLong |-> HaloWndProc, ok |-> ok]
    IN  /\ wndProc = ImGui_ImplBlam_WndProc
        /\ \/ /\ lpfnOldWndProc = HaloWndProc
              /\ swlCalls = <<sub(TRUE)>>
              /\ cursorHookWrites = 1
              /\ initResult = "true"
           \/ /\ lpfnOldWndProc = NULL
              /\ swlCalls = <<sub(TRUE), restore(FALSE)>>
              /\ cursorHookWrites = 1
              /\ initResult = "true"
           \/ /\ lpfnOldWndProc = ImGui_ImplBlam_WndProc
              /\ swlCalls = <<sub(TRUE), restore(FALSE), sub(TRUE)>>
              /\ cursorHookWrites = 2
              /\ initResult = "true"
        /\ backendPlatformName = "imgui_impl_blam"
        /\ blamLast \in {"init", "shutdown"}
        /\ (blamLast = "shutdown") = (lpfnOldWndProc = NULL)

WndNext ==
    \/ ImGui_ImplBlam_WndProc_call
    \/ SetTopWidget

(***************************************************************************)
(* Dear ImGui in Chimera: initialize_imgui and its callbacks.              *)
(***************************************************************************)
\* The function pointer &imgui_destroy and the default event priority.
imgui_destroy_ptr == 1
EVENT_PRIORITY_DEFAULT == 1

\* imLast.started: an ImGui frame was started; imLast.rendered: one was
\* rendered; imLast.dx9: the calls made to the rendering implementation.
ImOp(op, started, rendered, dx9) ==
    [op |-> op, started |-> started, rendered |-> rendered, dx9 |-> dx9]

Bool(b) == IF b THEN "true" ELSE "false"

imFlags == <<context_initialized, platform_initialized,
             renderer_initialized, device_objects_created>>
imHooks == <<d3d9_reset_events, d3d9_end_scene_events, updateHookWrites>>
imDx9 == <<dx9InitResult, dx9CreateResult>>

\* Variant: the renderer flags are not consulted.
ready_without_renderer == context_initialized /\ platform_initialized

ready ==
    /\ context_initialized
    /\ platform_initialized
    /\ renderer_initialized
    /\ device_objects_created

\* add_d3d9_reset_event, add_d3d9_end_scene_event, add_game_quit_event and
\* write_jmp_call of the update-widgets hook.
register_callbacks ==
    /\ d3d9_reset_events' = d3d9_reset_events \cup {"imgui_reset_device"}
    /\ d3d9_end_scene_events' = d3d9_end_scene_events \cup {"imgui_new_frame"}
    /\ AddEventCall("game_quit", imgui_destroy_ptr, EVENT_PRIORITY_DEFAULT)
    /\ updateHookWrites < MaxHookWrites
    /\ updateHookWrites' = updateHookWrites + 1

\* Variant: the result of ImGui_ImplBlam_Init does not end initialize_imgui.
register_callbacks_always(initialized) == register_callbacks

\* if (!platform_initialized) return; and what follows.
register_callbacks_if(initialized) ==
    IF initialized
    THEN register_callbacks
    ELSE UNCHANGED <<evVars, d3d9_reset_events, d3d9_end_scene_events,
                     updateHookWrites>>

initialize_imgui ==
    /\ context_initialized' = TRUE
    /\ \/ /\ platform_initialized
          /\ UNCHANGED <<blamVars, platform_initialized>>
          /\ register_callbacks
       \/ /\ ~platform_initialized
          /\ ImGui_ImplBlam_Init_call
          /\ platform_initialized' = (initResult' = "true")
          /\ register_callbacks_if(initResult' = "true")
    /\ imLast' = ImOp("initialize_imgui", FALSE, FALSE, <<>>)
    /\ UNCHANGED <<renderer_initialized, device_objects_created,
                   dx9InitResult, dx9CreateResult, endSceneSeen>>
    /\ UNCHANGED <<sigVars, wndVars, capVars, cmpVars, textVars>>

\* Variant: the device objects are not flagged for recreation.
imgui_reset_device_keeps_flag ==
    /\ "imgui_reset_device" \in d3d9_reset_events
    /\ IF ~renderer_initialized
       THEN /\ imLast' = ImOp("imgui_reset_device", FALSE, FALSE, <<>>)
            /\ UNCHANGED <<device_objects_created, dx9CreateResult>>
       ELSE /\ imLast' = ImOp("imgui_reset_device", FALSE, FALSE,
                              <<"InvalidateDeviceObjects">>)
            /\ dx9CreateResult' = "none"
            /\ UNCHANGED device_objects_created
    /\ UNCHANGED <<context_initialized, platform_initialized,
                   renderer_initialized, imHooks, dx9InitResult,
                   endSceneSeen>>
    /\ UNCHANGED <<evVars, sigVars, blamVars, wndVars, capVars, cmpVars,
                   textVars>>

\* The D3D9 device is reset.
imgui_reset_device ==
    /\ "imgui_reset_device" \in d3d9_reset_events
    /\ IF ~renderer_initialized
       THEN /\ imLast' = ImOp("imgui_reset_device", FALSE, FALSE, <<>>)
            /\ UNCHANGED <<device_objects_created, dx9CreateResult>>
       ELSE /\ imLast' = ImOp("imgui_reset_device", FALSE, FALSE,
                              <<"InvalidateDeviceObjects">>)
            /\ dx9CreateResult' = "none"
            /\ device_objects_created' = FALSE
    /\ UNCHANGED <<context_initialized, platform_initialized,
                   renderer_initialized, imHooks, dx9InitResult,
                   endSceneSeen>>
    /\ UNCHANGED <<evVars, sigVars, blamVars, wndVars, capVars, cmpVars,
                   textVars>>

\* ImGui_ImplBlam_NewFrame, as far as the key state and the cursor go.
ImGui_ImplBlam_NewFrame_call ==
    /\ KeysDown' = IF is_imgui_active THEN KeysDown
                   ELSE [k \in DOMAIN KeysDown |-> FALSE]
    /\ UNCHANGED <<topWidget, keysOob, inputCharacter, wndMessage, forwarded,
                   wndResult>>

\* The hooked update of the widgets.
imgui_update ==
    /\ updateHookWrites > 0
    /\ IF ~ready
       THEN /\ imLast' = ImOp("imgui_update", FALSE, FALSE, <<>>)
            /\ UNCHANGED <<wndVars, capVars>>
       ELSE /\ imLast' = ImOp("imgui_update", TRUE, FALSE, <<"NewFrame">>)
            /\ ImGui_ImplBlam_NewFrame_call
            /\ \E wantMouse, wantKeyboard \in BOOLEAN :
                  /\ WantCaptureMouse' = wantMouse
                  /\ WantCaptureKeyboard' = wantKeyboard
                  /\ IF is_imgui_active
                     THEN ImGui_ImplBlam_CaptureInput_call(wantMouse,
                                                           wantKeyboard)
                     ELSE /\ hideWidgetCursor' = 0
                          /\ capBefore' = InputState
                          /\ UNCHANGED <<queues, wheel, buffered_keys,
                                         MouseDrawCursor>>
            /\ UNCHANGED capPc
    /\ UNCHANGED <<imFlags, imHooks, imDx9, endSceneSeen>>
    /\ UNCHANGED <<evVars, sigVars, blamVars, cmpVars, textVars>>

\* prepare_renderer_implementation(device); initOk and createOk are what
\* ImGui_ImplDX9_Init and ImGui_ImplDX9_CreateDeviceObjects return.
prepare_renderer_implementation(initOk, createOk) ==
    IF ~context_initialized
    THEN /\ imLast' = ImOp("imgui_new_frame", FALSE, FALSE, <<>>)
         /\ UNCHANGED <<renderer_initialized, device_objects_created, imDx9>>
    ELSE IF ~renderer_initialized
    THEN /\ imLast' = ImOp("imgui_new_frame", FALSE, FALSE, <<"Init">>)
         /\ dx9InitResult' = Bool(initOk)
         /\ renderer_initialized' = TRUE
         /\ device_objects_created' = TRUE
         /\ UNCHANGED dx9CreateResult
    ELSE IF ~device_objects_created
    THEN /\ imLast' = ImOp("imgui_new_frame", FALSE, FALSE,
                           <<"CreateDeviceObjects">>)
         /\ dx9CreateResult' = Bool(createOk)
         /\ device_objects_created' = TRUE
         /\ UNCHANGED <<renderer_initialized, dx9InitResult>>
    ELSE /\ imLast' = ImOp("imgui_new_frame", FALSE, FALSE, <<>>)
         /\ UNCHANGED <<renderer_initialized, device_objects_created, imDx9>>

\* The end-scene event.
imgui_new_frame ==
    /\ "imgui_new_frame" \in d3d9_end_scene_events
    /\ endSceneSeen' = TRUE
    /\ IF ~ready
       THEN \E initOk, createOk \in BOOLEAN :
                prepare_renderer_implementation(initOk, createOk)
       ELSE /\ imLast' = ImOp("imgui_new_frame", FALSE, TRUE,
                              <<"RenderDrawData">>)
            /\ UNCHANGED <<renderer_initialized, device_objects_created,
                           imDx9>>
    /\ UNCHANGED <<context_initialized, platform_initialized, imHooks>>
    /\ UNCHANGED <<evVars, sigVars, blamVars, wndVars, capVars, cmpVars,
                   textVars>>

imgui_destroy_call ==
    /\ IF renderer_initialized
       THEN /\ imLast' = ImOp("imgui_destroy", FALSE, FALSE, <<"Shutdown">>)
            /\ dx9InitResult' = "none"
            /\ dx9CreateResult' = "none"
            /\ device_objects_created' = FALSE
       ELSE /\ imLast' = ImOp("imgui_destroy", FALSE, FALSE, <<>>)
            /\ UNCHANGED <<device_objects_created, imDx9>>
    /\ renderer_initialized' = FALSE
    /\ IF platform_initialized
       THEN ImGui_ImplBlam_Shutdown_call
       ELSE UNCHANGED blamVars
    /\ platform_initialized' = FALSE
    /\ context_initialized' = FALSE

\* The game quits: the hook calls the registered functions in order.
imgui_destroy ==
    /\ enabled["game_quit"]
    /\ calls' = call_in_order(events["game_quit"])
    /\ lastOp' = Op("dispatch", "game_quit", 0, 0, FALSE)
    /\ IF \E i \in 1..Len(calls') : calls'[i] = imgui_destroy_ptr
       THEN imgui_destroy_call
       ELSE UNCHANGED <<blamVars, imFlags, imDx9, imLast>>
    /\ UNCHANGED <<events, enabled, hookWrites, order>>
    /\ UNCHANGED <<imHooks, endSceneSeen>>
    /\ UNCHANGED <<sigVars, wndVars, capVars, cmpVars, textVars>>

ImInit ==
    /\ context_initialized = FALSE
    /\ platform_initialized = FALSE
    /\ renderer_initialized = FALSE
    /\ device_objects_created = FALSE
    /\ d3d9_reset_events = {}
    /\ d3d9_end_scene_events = {}
    /\ updateHookWrites = 0
    /\ dx9InitResult = "none"
    /\ dx9CreateResult = "none"
    /\ endSceneSeen = FALSE
    /\ imLast = ImOp("none", FALSE, FALSE, <<>>)

ImguiNext ==
    \/ initialize_imgui
    \/ imgui_reset_device
    \/ imgui_update
    \/ imgui_new_frame
    \/ imgui_destroy

(***************************************************************************)
(* lua_wrapper: the integer comparison helpers and the integral frame      *)
(* interface.                                                              *)
(***************************************************************************)
\* Integer types have SmallBits or LuaBits bits; lua_Integer is the signed
\* type of LuaBits bits.
SmallBits == 2
LuaBits == 4

RECURSIVE Pow2(_)
Pow2(n) == IF n = 0 THEN 1 ELSE 2 * Pow2(n - 1)

IntType(signed, bits) == [signed |-> signed, bits |-> bits]
IntTypes == {IntType(s, b) : s \in BOOLEAN, b \in {SmallBits, LuaBits}}
lua_Integer == IntType(TRUE, LuaBits)

\* std::numeric_limits<T>::min() and max()
NumericMin(T) == IF T.signed THEN 0 - Pow2(T.bits - 1) ELSE 0
NumericMax(T) == IF T.signed THEN Pow2(T.bits - 1) - 1 ELSE Pow2(T.bits) - 1
ValuesOf(T) == NumericMin(T)..NumericMax(T)

\* static_cast<T>(v): the value of T congruent to v modulo 2^bits.
static_cast(T, v) ==
    LET m == v % Pow2(T.bits)
    IN  IF T.signed /\ m > NumericMax(T) THEN m - Pow2(T.bits) ELSE m
make_unsigned(T) == IntType(FALSE, T.bits)

\* An operand: a value of an integer type.
Operand(T, v) == [type |-> T, value |-> v]
Operands == UNION {{Operand(T, v) : v \in ValuesOf(T)} : T \in IntTypes}

cmp_less(a, b) ==
    IF a.type.signed = b.type.signed
    THEN a.value = b.value
    ELSE IF a.type.signed
    THEN IF a.value < 0 THEN TRUE
         ELSE static_cast(make_unsigned(a.type), a.value) < b.value
    ELSE IF b.value < 0 THEN FALSE
         ELSE a.value < static_cast(make_unsigned(b.type), b.value)

cmp_less_equal(a, b) == ~cmp_less(a, b)

\* frame_interface<Integral>::assign(L, arg, dest) with v on the stack:
\* whether luaL_error is raised, and the value dest has afterwards (it is 0
\* before).
frame_interface_assign(Integral, v) ==
    LET min == Operand(Integral, NumericMin(Integral))
        max == Operand(Integral, NumericMax(Integral))
        lv == Operand(lua_Integer, v)
    IN  IF ~(cmp_less_equal(min, lv) /\ cmp_less_equal(lv, max))
        THEN [error |-> TRUE, dest |-> 0]
        ELSE [error |-> FALSE, dest |-> static_cast(Integral, v)]

compare_integers ==
    /\ "compare" \notin cmpPc
    /\ cmpResult' = [less |-> cmp_less(cmpArgs.a, cmpArgs.b),
                     less_equal |-> cmp_less_equal(cmpArgs.a, cmpArgs.b)]
    /\ cmpPc' = cmpPc \cup {"compare"}
    /\ UNCHANGED <<cmpArgs, asgDest, asgValue, asgResult>>
    /\ UNCHANGED <<evVars, sigVars, blamVars, wndVars, capVars, imVars,
                   textVars>>

assign ==
    /\ "assign" \notin cmpPc
    /\ asgResult' = frame_interface_assign(asgDest, asgValue)
    /\ cmpPc' = cmpPc \cup {"assign"}
    /\ UNCHANGED <<cmpArgs, cmpResult, asgDest, asgValue>>
    /\ UNCHANGED <<evVars, sigVars, blamVars, wndVars, capVars, imVars,
                   textVars>>

\* No call is under way.
CmpIdle ==
    /\ cmpArgs = [a |-> Operand(lua_Integer, 0), b |-> Operand(lua_Integer, 0)]
    /\ cmpResult = [less |-> FALSE, less_equal |-> FALSE]
    /\ asgDest = lua_Integer
    /\ asgValue = 0
    /\ asgResult = [error |-> FALSE, dest |-> 0]
    /\ cmpPc = {}

\* The helpers are about to be called: any operands, any destination type
\* and any Lua integer.
CmpInit ==
    /\ \/ /\ cmpArgs \in [a : Operands, b : Operands]
          /\ asgDest = lua_Integer
          /\ asgValue = 0
       \/ /\ cmpArgs = [a |-> Operand(lua_Integer, 0),
                        b |-> Operand(lua_Integer, 0)]
          /\ asgDest \in IntTypes
          /\ asgValue \in ValuesOf(lua_Integer)
    /\ cmpResult = [less |-> FALSE, less_equal |-> FALSE]
    /\ asgResult = [error |-> FALSE, dest |-> 0]
    /\ cmpPc = {}

CmpNext ==
    \/ compare_integers
    \/ assign

(***************************************************************************)
(* setup_text_hook: loading the fonts of the font override.                *)
(***************************************************************************)
\* The fonts directory holds at most MaxFonts entries.
MaxFonts == 2

FontExtensions == {".otf", ".ttf", ".ttc"}
\* A directory entry: whether a regular file, its extension, and whether
\* AddFontResourceEx accepts it.
DirEntries == [regular : BOOLEAN, extension : FontExtensions \cup {".txt"},
               loads : BOOLEAN]

is_font_file(f) == f.regular /\ f.extension \in FontExtensions

\* Variant: a font that does not load is skipped.
font_load_failed_skips ==
    /\ fontIndex' = fontIndex + 1
    /\ UNCHANGED <<dialogs, textPc>>

\* MessageBox(..., "Failed to load font", ...), which blocks.
font_load_failed ==
    /\ dialogs' = Append(dialogs, "Failed to load font")
    /\ textPc' = "dialog"
    /\ UNCHANGED fontIndex

\* The hooks and the frame event, then the settings are read.
setup_text_hook ==
    /\ textPc = "start"
    /\ textSteps' = Append(textSteps, "hooks")
    /\ textPc' = IF ~font_override.enabled THEN "done"
                 ELSE IF fontsDir.is_directory THEN "iterating"
                 ELSE "register"
    /\ UNCHANGED <<font_override, fontsDir, fontIndex, fontsLoaded, dialogs>>
    /\ UNCHANGED <<evVars, sigVars, blamVars, wndVars, capVars, imVars,
                   cmpVars>>

\* One round of the loop over the directory: fontsDir.throwsAt is the round
\* in which the iteration throws (0: none).
load_font ==
    /\ textPc = "iterating"
    /\ IF fontsDir.throwsAt = fontIndex
       THEN /\ dialogs' = Append(dialogs,
                                 "Failed to iterate through font directory")
            /\ textPc' = "dialog"
            /\ UNCHANGED <<fontIndex, fontsLoaded>>
       ELSE IF fontIndex > Len(fontsDir.entries)
       THEN /\ textPc' = "register"
            /\ UNCHANGED <<fontIndex, fontsLoaded, dialogs>>
       ELSE IF ~is_font_file(fontsDir.entries[fontIndex])
       THEN /\ fontIndex' = fontIndex + 1
            /\ UNCHANGED <<fontsLoaded, dialogs, textPc>>
       ELSE IF fontsDir.entries[fontIndex].loads
       THEN /\ fontsLoaded' = fontsLoaded \cup {fontIndex}
            /\ fontIndex' = fontIndex + 1
            /\ UNCHANGED <<dialogs, textPc>>
       ELSE /\ font_load_failed
            /\ UNCHANGED fontsLoaded
    /\ UNCHANGED <<font_override, fontsDir, textSteps>>
    /\ UNCHANGED <<evVars, sigVars, blamVars, wndVars, capVars, imVars,
                   cmpVars>>

\* The user closes the message box: std::exit(EXIT_FAILURE).
exit_failure ==
    /\ textPc = "dialog"
    /\ textPc' = "exited"
    /\ UNCHANGED <<font_override, fontsDir, fontIndex, fontsLoaded, dialogs,
                   textSteps>>
    /\ UNCHANGED <<evVars, sigVars, blamVars, wndVars, capVars, imVars,
                   cmpVars>>

\* add_d3d9_end_scene_event, add_d3d9_reset_event, initialize_hud_text.
register_text_events ==
    /\ textPc = "register"
    /\ textSteps' = textSteps \o <<"end_scene", "reset">>
                    \o (IF font_override.hud_text_enabled
                        THEN <<"hud_text">> ELSE <<>>)
    /\ textPc' = "done"
    /\ UNCHANGED <<font_override, fontsDir, fontIndex, fontsLoaded, dialogs>>
    /\ UNCHANGED <<evVars, sigVars, blamVars, wndVars, capVars, imVars,
                   cmpVars>>

\* setup_text_hook has not been called.
TextIdle ==
    /\ font_override = [enabled |-> FALSE, hud_text_enabled |-> FALSE]
    /\ fontsDir = [is_directory |-> FALSE, entries |-> <<>>, throwsAt |-> 0]
    /\ fontIndex = 1
    /\ fontsLoaded = {}
    /\ dialogs = <<>>
    /\ textSteps = <<>>
    /\ textPc = "start"

\* setup_text_hook is about to run: any settings, any fonts directory.
TextInit ==
    /\ font_override \in [enabled : BOOLEAN, hud_text_enabled : BOOLEAN]
    /\ \E dir \in BOOLEAN, entries \in SeqsUpTo(DirEntries, 0, MaxFonts) :
          \E throwsAt \in 0..(Len(entries) + 1) :
             fontsDir = [is_directory |-> dir, entries |-> entries,
                         throwsAt |-> throwsAt]
    /\ fontIndex = 1
    /\ fontsLoaded = {}
    /\ dialogs = <<>>
    /\ textSteps = <<>>
    /\ textPc = "start"

TextNext ==
    \/ setup_text_hook
    \/ load_font
    \/ exit_failure
    \/ register_text_events

(***************************************************************************)
(* Specifications.                                                         *)
(***************************************************************************)
\* The state after construction of the platform input, of Dear ImGui in
\* Chimera, of the comparison helpers and of the text hook.
OtherIdle == WndInit /\ CapIdle /\ ImInit /\ CmpIdle /\ TextIdle

Init == EventsInit /\ SigIdle /\ BlamInit /\ OtherIdle

SpecEvents == Init /\ [][EventsNext]_vars

InitFind == EventsInit /\ SigInit /\ BlamInit /\ OtherIdle

SpecFind == InitFind /\ [][SigNext]_vars

SpecBlam == Init /\ [][BlamNext]_vars

\* The top widget may be open while Dear ImGui runs.
WndInitOpen ==
    /\ topWidget = TRUE
    /\ KeysDown = [k \in 0..(KeysDownSize - 1) |-> FALSE]
    /\ keysOob = FALSE
    /\ inputCharacter = 0
    /\ wndMessage = NoMessage
    /\ forwarded = <<>>
    /\ wndResult = "none"

InitImgui ==
    /\ EventsInit /\ SigIdle /\ BlamInit
    /\ WndInit \/ WndInitOpen
    /\ CapIdle /\ ImInit /\ CmpIdle /\ TextIdle

SpecImgui == InitImgui /\ [][ImguiNext]_vars

InitWnd ==
    /\ EventsInit /\ SigIdle /\ Subclassed
    /\ WndInit /\ CapIdle /\ ImInit /\ CmpIdle /\ TextIdle

SpecWnd == InitWnd /\ [][WndNext]_vars

InitCapture ==
    /\ EventsInit /\ SigIdle /\ BlamInit
    /\ WndInit /\ CapInit /\ ImInit /\ CmpIdle /\ TextIdle

\* The top widget may be open when CaptureInput runs.
InitCaptureAny ==
    \/ InitCapture
    \/ /\ EventsInit /\ SigIdle /\ BlamInit
       /\ WndInitOpen
       /\ CapInit /\ ImInit /\ CmpIdle /\ TextIdle

SpecCapture == InitCaptureAny /\ [][CapNext]_vars

InitCmp ==
    /\ EventsInit /\ SigIdle /\ BlamInit
    /\ WndInit /\ CapIdle /\ ImInit /\ CmpInit /\ TextIdle

SpecCmp == InitCmp /\ [][CmpNext]_vars

InitText ==
    /\ EventsInit /\ SigIdle /\ BlamInit
    /\ WndInit /\ CapIdle /\ ImInit /\ CmpIdle /\ TextInit

SpecText == InitText /\ [][TextNext]_vars

(***************************************************************************)
(* Properties of the event lists.                                          *)
(***************************************************************************)
FunctionsOf(list) == [i \in 1..Len(list) |-> list[i].function]
Others(list, f) == SelectSeq(list, LAMBDA e : e.function # f)
CountOf(list, f) == Cardinality({i \in 1..Len(list) : list[i].function = f})

\* C1: after any sequence of add/remove calls, a category's list holds at most
\* one registration for any function pointer.
AtMostOneRegistration ==
    \A c \in Categories : \A i, j \in 1..Len(events[c]) :
        i # j => events[c][i].function # events[c][j].function

\* A function that was registered has been added again, among two others.
ReAddedWitness ==
    /\ lastOp.op = "add" /\ lastOp.cat = "game_closing" /\ lastOp.present
    /\ Len(events["game_closing"]) = 3

\* C2: add(f, p) is an idempotent upsert: afterwards exactly one registration
\* for f exists, with priority p; the other registrations are unchanged; the
\* same call again leaves the list as it is.
AddIsIdempotentUpsert ==
    [][lastOp'.op = "add" =>
        LET c == lastOp'.cat
            f == lastOp'.function
            p == lastOp'.priority
        IN  /\ CountOf(events'[c], f) = 1
            /\ \A i \in 1..Len(events'[c]) :
                events'[c][i].function = f => events'[c][i].priority = p
            /\ Others(events'[c], f) = Others(events[c], f)
            /\ \A d \in Categories \ {c} : events'[d] = events[d]
            /\ (lastOp = lastOp' => events'[c] = events[c])]_vars

\* A registered function was added again while two others were registered.
UpsertWitness ==
    /\ lastOp.op = "add" /\ lastOp.cat = "game_quit" /\ lastOp.present
    /\ Len(events["game_quit"]) = 3

\* C3 as stated: the stored registrations are ordered by ascending priority.
StoredByAscendingPriority ==
    \A c \in Categories : \A i, j \in 1..Len(events[c]) :
        i < j => events[c][i].priority <= events[c][j].priority

\* C3, amended: the stored registrations are in the order of their latest add
\* call (add appends), whatever their priorities.
StoredInInsertionOrder ==
    \A c \in Categories : FunctionsOf(events[c]) = order[c]

\* After an add, a registration of lower priority value sits after one of a
\* higher value.
UnsortedWitness ==
    /\ lastOp.op = "add"
    /\ \E i, j \in 1..Len(events[lastOp.cat]) :
        i < j /\ events[lastOp.cat][i].priority > events[lastOp.cat][j].priority

\* C4: remove(f) removes the registration of f if there is one and is a no-op
\* otherwise; the other registrations keep function, priority and relative
\* order; the hook is not installed by it.
RemoveOnlyRemoves ==
    [][\A c \in Categories, f \in Functions :
        (lastOp'.op = "remove" /\ lastOp'.cat = c /\ RemoveEventCall(c, f)) =>
            /\ CountOf(events'[c], f) = 0
            /\ events'[c] = Others(events[c], f)
            /\ (~Registered(c, f) => events'[c] = events[c])
            /\ \A d \in Categories \ {c} : events'[d] = events[d]
            /\ enabled' = enabled
            /\ hookWrites' = hookWrites]_vars

\* A registered function was removed and two others remain.
RemovedWitness ==
    /\ lastOp.op = "remove" /\ lastOp.present
    /\ Len(events[lastOp.cat]) = 2

PriorityOf(list, f) == list[CHOOSE i \in 1..Len(list) : list[i].function = f].priority
PositionIn(seq, f) == CHOOSE i \in 1..Len(seq) : seq[i] = f

\* C5: when the hook fires, every registered function is called exactly once,
\* in ascending priority, equal priorities in insertion order.
CalledOnceInPriorityOrder ==
    lastOp.op = "dispatch" =>
        LET reg == events[lastOp.cat]
            ins == order[lastOp.cat]
        IN  /\ Len(calls) = Len(reg)
            /\ \A i \in 1..Len(reg) :
                Cardinality({k \in 1..Len(calls) : calls[k] = reg[i].function}) = 1
            /\ \A k, l \in 1..Len(calls) :
                k < l =>
                    /\ PriorityOf(reg, calls[k]) <= PriorityOf(reg, calls[l])
                    /\ PriorityOf(reg, calls[k]) = PriorityOf(reg, calls[l])
                        => PositionIn(ins, calls[k]) < PositionIn(ins, calls[l])

\* The hook fired with three registrations, two of one priority, stored in
\* another order than the one they are called in.
DispatchWitness ==
    /\ lastOp.op = "dispatch"
    /\ Len(calls) = 3
    /\ calls # FunctionsOf(events[lastOp.cat])
    /\ \E i, j \in 1..3 :
        i # j /\ events[lastOp.cat][i].priority = events[lastOp.cat][j].priority

\* C6: the hook is installed by the first add of its category and stays
\* installed; write_jmp_call runs exactly once for the category.
HookInstalledOnce ==
    [][\A c \in Categories :
        /\ ~enabled[c] => hookWrites[c] = 0
        /\ enabled[c] => enabled'[c] /\ hookWrites'[c] = hookWrites[c]
        /\ (lastOp'.op = "add" /\ lastOp'.cat = c)
            => enabled'[c] /\ hookWrites'[c] = 1
        /\ (~enabled[c] /\ enabled'[c])
            => lastOp'.op = "add" /\ lastOp'.cat = c]_vars

\* Every registration has been removed and the hook is still installed.
HookStaysWitness ==
    /\ lastOp.op = "remove" /\ lastOp.present
    /\ events["game_closing"] = <<>>
    /\ enabled["game_closing"] /\ hookWrites["game_closing"] = 1

(***************************************************************************)
(* Properties of the signature matcher.                                    *)
(***************************************************************************)
\* P matches at offset o of R: the window lies in the region, a literal
\* position holds its own value, a wildcard position any value.
MatchesAt(P, R, o) ==
    /\ o + Len(P) <= Len(R)
    /\ \A k \in 1..Len(P) : P[k] = WILDCARD \/ R[o + k] = P[k]
MatchSet(P, R) == {o \in 0..Len(R) : MatchesAt(P, R, o)}

\* C7: if P matches at exactly one offset of R, find returns that offset; the
\* example pattern is found at offset 1 of the example region.
UniqueMatchFound ==
    sigPc = "done" =>
        /\ \A o \in 0..Len(sigRegion) :
            MatchSet(sigPattern, sigRegion) = {o}
                => sigResult = [status |-> "found", offset |-> o]
        /\ (sigPattern = ExamplePattern /\ sigRegion = ExampleRegion)
                => sigResult = [status |-> "found", offset |-> 1]

\* find has run on a pattern with a wildcard that matches at one offset, which
\* is not the first of the region.
UniqueMatchWitness ==
    /\ sigPc = "done"
    /\ \E k \in 1..Len(sigPattern) : sigPattern[k] = WILDCARD
    /\ \E o \in 1..Len(sigRegion) : MatchSet(sigPattern, sigRegion) = {o}
    /\ sigResult.status = "found"

\* C8: if P matches at no offset of R, find reports not-found; a pattern longer
\* than the region yields not-found, and find reads no byte outside the region.
NoMatchNotFound ==
    sigPc = "done" =>
        /\ MatchSet(sigPattern, sigRegion) = {} => sigResult.status = "not_found"
        /\ Len(sigPattern) > Len(sigRegion) => sigResult.status = "not_found"
        /\ sigReads \subseteq 0..(Len(sigRegion) - 1)

\* find has run on a pattern longer than a non-empty region whose bytes (and
\* the byte behind it) would match.
TooLongWitness ==
    /\ sigPc = "done"
    /\ Len(sigPattern) > Len(sigRegion) /\ Len(sigRegion) > 0
    /\ sigPattern[1] = sigRegion[1] /\ sigPattern[2] = sigBeyond
    /\ sigResult.status = "not_found"

\* C9: if P matches at two or more offsets of R, find reports ambiguous.
MultipleMatchAmbiguous ==
    sigPc = "done" =>
        (Cardinality(MatchSet(sigPattern, sigRegion)) >= 2
            => sigResult.status = "ambiguous")

\* find has run on a literal pattern that matches at two offsets.
AmbiguousWitness ==
    /\ sigPc = "done"
    /\ \A k \in 1..Len(sigPattern) : sigPattern[k] # WILDCARD
    /\ Cardinality(MatchSet(sigPattern, sigRegion)) = 2
    /\ sigResult.status = "ambiguous"

SubclassingFailed ==
    /\ Len(swlCalls') = Len(swlCalls) + 1
    /\ ~swlCalls'[Len(swlCalls')].ok

\* C11: ImGui_ImplBlam_Init returns true if and only if the platform
\* implementation was initialized (window subclassed, cursor hook installed);
\* when subclassing the window fails it returns false, leaves lpfnOldWndProc
\* NULL and installs no cursor hook, and initialize_imgui then leaves
\* platform_initialized false, registers no reset/end-scene/game-quit event
\* and installs no update-widgets hook.
InitFailureRegistersNothing ==
    [][(imLast'.op = "initialize_imgui" /\ ~platform_initialized
        /\ initialize_imgui) =>
        /\ blamLast' = "init"
        /\ (initResult' = "true") <=>
              /\ lpfnOldWndProc' # NULL
              /\ wndProc' = ImGui_ImplBlam_WndProc
              /\ cursorHookWrites' = cursorHookWrites + 1
              /\ backendPlatformName' = "imgui_impl_blam"
        /\ (initResult' = "false") <=> SubclassingFailed
        /\ platform_initialized' = (initResult' = "true")
        /\ SubclassingFailed =>
              /\ initResult' = "false"
              /\ lpfnOldWndProc' = NULL
              /\ ~platform_initialized'
              /\ UNCHANGED <<cursorHookWrites, backendPlatformName, wndProc>>
              /\ UNCHANGED <<events, enabled, hookWrites>>
              /\ UNCHANGED <<d3d9_reset_events, d3d9_end_scene_events,
                             updateHookWrites>>]_vars

\* initialize_imgui has run, subclassing failed, and nothing is registered.
InitFailureWitness ==
    /\ imLast.op = "initialize_imgui"
    /\ initResult = "false"
    /\ swlCalls = << [newLong |-> ImGui_ImplBlam_WndProc, ok |-> FALSE] >>
    /\ context_initialized
    /\ ~platform_initialized
    /\ events["game_quit"] = <<>>
    /\ d3d9_end_scene_events = {}
    /\ updateHookWrites = 0

\* C12: ready() returns true if and only if Dear ImGui is completely
\* initialized: the context exists, ImGui_ImplBlam_Init succeeded,
\* ImGui_ImplDX9_Init succeeded and the device objects were successfully
\* created; if ImGui_ImplDX9_Init or ImGui_ImplDX9_CreateDeviceObjects
\* reports failure, ready() stays false.
ReadyIffCompletelyInitialized ==
    /\ ready <=>
          /\ context_initialized
          /\ platform_initialized /\ initResult = "true"
          /\ dx9InitResult = "true"
          /\ device_objects_created /\ dx9CreateResult # "false"
    /\ (dx9InitResult = "false" \/ dx9CreateResult = "false") => ~ready

\* C13: initialize_imgui does not complete initialization by itself: before
\* the first end-scene event ready() is false and imgui_update does nothing;
\* the renderer and the device objects are initialized only inside
\* imgui_new_frame, and the frame in which they are initialized is not
\* rendered.
RendererInitializedAtEndScene ==
    [][/\ ~endSceneSeen' => ~ready'
       /\ imLast'.op = "initialize_imgui" =>
             UNCHANGED <<renderer_initialized, device_objects_created,
                         imDx9>>
       /\ (imLast'.op = "imgui_update" /\ ~endSceneSeen /\ imgui_update) =>
             /\ ~imLast'.started
             /\ imLast'.dx9 = <<>>
             /\ UNCHANGED <<evVars, blamVars, wndVars, capVars, imFlags,
                            imHooks, imDx9>>
       /\ (\/ renderer_initialized' /\ ~renderer_initialized
           \/ device_objects_created' /\ ~device_objects_created) =>
             /\ imLast'.op = "imgui_new_frame"
             /\ endSceneSeen'
             /\ ~imLast'.started
             /\ ~imLast'.rendered]_vars

\* imgui_update ran after a successful initialize_imgui and before any
\* end-scene event, and started no frame.
UpdateBeforeEndSceneWitness ==
    /\ imLast.op = "imgui_update"
    /\ ~imLast.started
    /\ context_initialized
    /\ platform_initialized
    /\ ~endSceneSeen
    /\ updateHookWrites > 0

\* C14: a D3D9 reset received while the renderer is initialized invalidates
\* the device objects and sets device_objects_created to false, so that no
\* ImGui frame is started or rendered until the next end-scene event, which
\* recreates the device objects (device_objects_created true again) without
\* rendering; a reset received while the renderer is not initialized changes
\* nothing.
ResetInvalidatesUntilEndScene ==
    [][/\ (imLast'.op = "imgui_reset_device" /\ imgui_reset_device) =>
             IF renderer_initialized
             THEN /\ ~device_objects_created'
                  /\ imLast'.dx9 = <<"InvalidateDeviceObjects">>
                  /\ dx9CreateResult' = "none"
             ELSE /\ imLast'.dx9 = <<>>
                  /\ UNCHANGED <<evVars, blamVars, wndVars, capVars, imFlags,
                                 imHooks, imDx9, endSceneSeen>>
       /\ ~device_objects_created =>
             /\ ~imLast'.started
             /\ ~imLast'.rendered
       /\ (renderer_initialized /\ ~device_objects_created
           /\ imLast'.op = "imgui_new_frame") =>
             /\ device_objects_created'
             /\ imLast'.dx9 = <<"CreateDeviceObjects">>
             /\ ~imLast'.rendered]_vars

\* The end-scene event after a reset has recreated the device objects.
RecreatedWitness ==
    /\ imLast.op = "imgui_new_frame"
    /\ imLast.dx9 = <<"CreateDeviceObjects">>
    /\ ~imLast.rendered
    /\ renderer_initialized
    /\ device_objects_created

(***************************************************************************)
(* Properties of the platform input.                                       *)
(***************************************************************************)
\* No SetWindowLongPtr call has failed.
AllCallsOk == \A i \in 1..Len(swlCalls) : swlCalls[i].ok

KeyMessages == {"WM_KEYDOWN", "WM_SYSKEYDOWN", "WM_KEYUP", "WM_SYSKEYUP"}

OtherEvents(queue) ==
    SelectSeq(queue, LAMBDA e : e.event_type \notin
                 {type_none, type_mouse_button, type_gamepad_button})
ButtonCount(queue) ==
    Cardinality({i \in 1..Len(queue) : queue[i].event_type \in
                    {type_mouse_button, type_gamepad_button}})
HasType(queue, type) == \E i \in 1..Len(queue) : queue[i].event_type = type

\* C16: ImGui_ImplBlam_CaptureInput never removes custom_activation widget
\* events: in each of the four queues, the sequence of events whose type is
\* neither mouse_button nor gamepad_button is the same, in the same relative
\* order, before and after the call, and the queue keeps its eight slots
\* with the vacated tail slots zero-initialized (type_none).
CaptureKeepsOtherEvents ==
    capPc = "done" =>
        /\ DOMAIN queues = 1..NumQueues
        /\ \A q \in 1..NumQueues :
              LET before == capBefore.queues[q]
                  after == queues[q]
                  vacated == ButtonCount(before) - ButtonCount(after)
              IN  /\ OtherEvents(after) = OtherEvents(before)
                  /\ Len(after) = QueueSize
                  /\ vacated >= 0
                  /\ \A i \in (QueueSize - vacated + 1)..QueueSize :
                        after[i] = ZeroEvent

\* Full queues holding mouse button, gamepad button and custom activation
\* events have been captured from; the custom activation events are there.
CaptureFullQueueWitness ==
    /\ capPc = "done"
    /\ topWidget /\ WantCaptureMouse /\ WantCaptureKeyboard
    /\ \A q \in 1..NumQueues :
          /\ capBefore.queues[q][QueueSize] # ZeroEvent
          /\ HasType(capBefore.queues[q], type_mouse_button)
          /\ HasType(capBefore.queues[q], type_gamepad_button)
          /\ HasType(queues[q], type_custom_activation)
          /\ queues[q][QueueSize] = ZeroEvent

\* C19: when ImGui is active: if io.WantCaptureMouse, then after
\* ImGui_ImplBlam_CaptureInput no widget event queue contains a
\* type_mouse_button event and the direct mouse wheel value is 0; if
\* io.WantCaptureKeyboard, then no queue contains a type_gamepad_button event
\* and the buffered key buffer is empty (count 0, read_index 0, all entries
\* zero); when ImGui is inactive, or neither flag is set, queues and input
\* buffers are unchanged.
CaptureClearsCapturedInput ==
    capPc = "done" =>
        /\ (topWidget /\ WantCaptureMouse) =>
              /\ \A q \in 1..NumQueues :
                    ~HasType(queues[q], type_mouse_button)
              /\ wheel = 0
        /\ (topWidget /\ WantCaptureKeyboard) =>
              /\ \A q \in 1..NumQueues :
                    ~HasType(queues[q], type_gamepad_button)
              /\ buffered_keys.count = 0
              /\ buffered_keys.read_index = 0
              /\ \A i \in 1..NumBufferedKeys : buffered_keys.keys[i] = 0
        /\ (~topWidget \/ (~WantCaptureMouse /\ ~WantCaptureKeyboard)) =>
              /\ queues = capBefore.queues
              /\ wheel = capBefore.wheel
              /\ buffered_keys = capBefore.buffered_keys

\* The mouse alone was captured while the wheel had moved, keys were
\* buffered and mouse button events were queued.
MouseCapturedWitness ==
    /\ capPc = "done"
    /\ topWidget /\ WantCaptureMouse /\ ~WantCaptureKeyboard
    /\ capBefore.wheel # 0
    /\ wheel = 0
    /\ HasType(capBefore.queues[1], type_mouse_button)
    /\ buffered_keys.count > 0
    /\ buffered_keys = capBefore.buffered_keys

(***************************************************************************)
(* Properties of the integer comparison helpers.                           *)
(***************************************************************************)
\* C17: the integer comparison helpers behave like C++20 std::cmp_*: for all
\* integers a, b of any signedness mix, cmp_less(a, b) is true iff a < b
\* mathematically and cmp_less_equal(a, b) is true iff a <= b, so that
\* frame_interface<Integral>::assign raises the out-of-range error exactly
\* when the Lua integer lies outside [min, max] of the destination type.
ComparesLikeStd ==
    /\ "compare" \in cmpPc =>
          /\ cmpResult.less = (cmpArgs.a.value < cmpArgs.b.value)
          /\ cmpResult.less_equal = (cmpArgs.a.value <= cmpArgs.b.value)
    /\ "assign" \in cmpPc =>
          /\ asgResult.error = (asgValue \notin ValuesOf(asgDest))
          /\ ~asgResult.error => asgResult.dest = asgValue

(***************************************************************************)
(* Properties of the text hook.                                            *)
(***************************************************************************)
\* With the font override enabled, a font file of the fonts directory does
\* not load, or the iteration throws.
FontFailure ==
    /\ font_override.enabled
    /\ fontsDir.is_directory
    /\ \/ fontsDir.throwsAt # 0
       \/ \E i \in 1..Len(fontsDir.entries) :
             /\ is_font_file(fontsDir.entries[i])
             /\ ~fontsDir.entries[i].loads

\* C18: with font override enabled, if any .otf/.ttf/.ttc file in the fonts
\* directory fails to load (or iterating the directory throws) during
\* setup_text_hook, the failure is reported through a blocking dialog and the
\* process terminates; none of the later initialization steps (registering
\* the end-scene and reset events, initializing HUD text) is executed.
FontFailureTerminates ==
    FontFailure =>
        /\ textPc \in {"start", "iterating", "dialog", "exited"}
        /\ textPc # "exited" => ENABLED TextNext
        /\ textPc \in {"dialog", "exited"} <=> Len(dialogs) = 1
        /\ textPc \in {"start", "iterating"} <=> Len(dialogs) = 0
        /\ \A i \in 1..Len(dialogs) :
              dialogs[i] \in {"Failed to load font",
                              "Failed to iterate through font directory"}
        /\ \A i \in 1..Len(textSteps) :
              textSteps[i] \notin {"end_scene", "reset", "hud_text"}

\* A font was loaded, the next one was not: the dialog was shown and the
\* process has exited, with HUD text enabled in the settings.
FontFailureWitness ==
    /\ textPc = "exited"
    /\ dialogs = <<"Failed to load font">>
    /\ fontsLoaded # {}
    /\ font_override.hud_text_enabled
    /\ textSteps = <<"hooks">>

====
